---- MODULE Spec2Model ----
(***************************************************************************)
(* Model of dethi/envoy-hck: a gRPC server that streams the time on a      *)
(* ticker (server.StreamTime) and an HTTP handler (/toggle-health) that    *)
(* flips the health status published through the gRPC health server.      *)
(* src/main.go holds the two variants of the program (mTLS, lines 1-122;   *)
(* standalone, lines 124-244); they differ in the ticker period only.      *)
(*                                                                         *)
(* Time is counted in half seconds, so that the truncation to whole        *)
(* seconds done by t.Format(time.RFC3339) is visible.                      *)
(***************************************************************************)
EXTENDS Integers, Sequences, FiniteSets

\* ---------------------------------------------------------------- bounds
NumHandlers == 2     \* concurrent /toggle-health requests
MaxToggles == 3      \* toggle requests accepted in one run
MaxTime == 12        \* a single session is followed up to this time (half seconds)
ShortTime == 4       \* concurrent processes are followed up to this time
MaxDrift == 1        \* latest time (half seconds) at which a call may start

\* the StreamTime calls followed: two independent clients
Sessions == {"A", "B"}
Handlers == 1..NumHandlers

\* ------------------------------------------------------ program constants
UnitsPerSecond == 2  \* model time unit: half a second
MtlsPeriodSeconds == 2
StandalonePeriodSeconds == 1

Variants == {"mtls", "standalone"}

\* time.NewTicker(2 * time.Second) / time.NewTicker(1 * time.Second)
Period(v) ==
  IF v = "mtls" THEN MtlsPeriodSeconds * UnitsPerSecond
  ELSE StandalonePeriodSeconds * UnitsPerSecond

\* t.Format(time.RFC3339): second resolution, the fraction is cut off
Format(t) == t \div UnitsPerSecond

\* -------------------------------------------------------------- strings
\* a string is a sequence of characters, so that "contains" is computed
HEALTHY == <<"H", "E", "A", "L", "T", "H", "Y">>
UNHEALTHY == <<"U", "N">> \o HEALTHY
BodyPrefix ==
  <<"H","e","a","l","t","h"," ","s","t","a","t","u","s"," ","i","s"," ","n","o","w"," ">>
Newline == <<"\n">>

\* fmt.Fprintf(w, "Health status is now %s\n", statusString)
Fprintf(statusString) == BodyPrefix \o statusString \o Newline

\* strings.Contains
Contains(s, sub) ==
  \E i \in 0..(Len(s) - Len(sub)) :
    \A j \in 1..Len(sub) : s[i + j] = sub[j]

VARIABLES
  variant,      \* which of the two programs runs
  \* --- health register (main.go:54-57, 89-92, 102-116)
  isHealthy,    \* package variable isHealthy
  mu,           \* package variable mu: 0 = unlocked, else the handler holding it
  statusMap,    \* healthServer's status of service ""
  hpc,          \* hpc[h]: where toggle handler h stands
  tmp,          \* tmp[h]: the value of isHealthy loaded by h for the negation
  statusString, \* statusString[h]: the handler's local
  body,         \* body[h]: what h wrote to its ResponseWriter
  started,      \* toggle requests accepted so far
  resps,        \* bodies of the completed toggle requests, in completion order
  nset,         \* completed SetServingStatus calls by toggle handlers
  \* --- health query (grpc health Check on service "")
  qpc, qres, qstart, qread,
  \* --- time stream sessions (main.go:34-52)
  now,          \* wall clock, half seconds
  spc,          \* spc[s]: where StreamTime call s stands
  tkRunning,    \* tkRunning[s]: number of running tickers owned by s
  tkWhen,       \* tkWhen[s]: next scheduled firing of the ticker
  tkC,          \* tkC[s]: ticker.C, a channel of capacity 1
  ctxDone,      \* ctxDone[s]: stream.Context() is cancelled
  tloc,         \* tloc[s]: the local t received from ticker.C
  sent,         \* sent[s]: CurrentTime of the TimeResponses written, in order
  result,       \* result[s]: "none" until StreamTime returns, then "OK" / "Internal"
  branch,       \* branch[s]: the case the last select of s took ("none" before)
  \* --- history of a session, for the properties
  fired,        \* fired[s]: clock firings of s's ticker
  firedAtCancel,\* firedAtCancel[s]: fired[s] when the cancellation fired, -1 before
  dropped,      \* dropped[s]: firings dropped because ticker.C was full
  received,     \* received[s]: ticks taken from ticker.C
  attempts,     \* attempts[s]: stream.Send calls made
  sendFailed,   \* sendFailed[s]: a Send returned an error
  \* --- the two programs of the file run side by side on the same events
  twin          \* twin.m: state of the mTLS program, twin.s: of the standalone one

healthVars == <<isHealthy, mu, statusMap, hpc, tmp, statusString, body, started,
                resps, nset>>
queryVars == <<qpc, qres, qstart, qread>>
sessVars == <<now, spc, tkRunning, tkWhen, tkC, ctxDone, tloc, sent, result, branch,
              fired, firedAtCancel, dropped, received, attempts, sendFailed>>
vars == <<variant, healthVars, queryVars, sessVars, twin>>

SERVING == "SERVING"
NOT_SERVING == "NOT_SERVING"

\* the state of one program of the pair before any request
\* main.go:54-57, 92 (mTLS): isHealthy = true, SetServingStatus("", SERVING)
MtlsInit ==
  [pc |-> "idle", timers |-> 0, n |-> 0, C |-> <<>>, cancelled |-> FALSE,
   t |-> 0, sent |-> <<>>, result |-> "none",
   isHealthy |-> TRUE, locked |-> FALSE, status |-> SERVING, hpc |-> "idle",
   tmp |-> TRUE, str |-> <<>>, body |-> <<>>, resps |-> <<>>, started |-> 0]

\* main.go:177-182, 210 (standalone)
StandaloneInit ==
  [pc |-> "idle", timers |-> 0, n |-> 0, C |-> <<>>, cancelled |-> FALSE,
   t |-> 0, sent |-> <<>>, result |-> "none",
   isHealthy |-> TRUE, locked |-> FALSE, status |-> SERVING, hpc |-> "idle",
   tmp |-> TRUE, str |-> <<>>, body |-> <<>>, resps |-> <<>>, started |-> 0]

\* ------------------------------------------------------------------ Init
\* the state after main() has registered the services and called
\* healthServer.SetServingStatus("", SERVING), before any request
Init ==
  /\ variant \in Variants
  /\ isHealthy = TRUE
  /\ mu = 0
  /\ statusMap = SERVING
  /\ hpc = [h \in Handlers |-> "idle"]
  /\ tmp = [h \in Handlers |-> TRUE]
  /\ statusString = [h \in Handlers |-> <<>>]
  /\ body = [h \in Handlers |-> <<>>]
  /\ started = 0
  /\ resps = <<>>
  /\ nset = 0
  /\ qpc = "idle"
  /\ qres = SERVING
  /\ qstart = 0
  /\ qread = 0
  /\ now = 0
  /\ spc = [s \in Sessions |-> "idle"]
  /\ tkRunning = [s \in Sessions |-> 0]
  /\ tkWhen = [s \in Sessions |-> 0]
  /\ tkC = [s \in Sessions |-> <<>>]
  /\ ctxDone = [s \in Sessions |-> FALSE]
  /\ tloc = [s \in Sessions |-> 0]
  /\ sent = [s \in Sessions |-> <<>>]
  /\ result = [s \in Sessions |-> "none"]
  /\ branch = [s \in Sessions |-> "none"]
  /\ fired = [s \in Sessions |-> 0]
  /\ firedAtCancel = [s \in Sessions |-> -1]
  /\ dropped = [s \in Sessions |-> 0]
  /\ received = [s \in Sessions |-> 0]
  /\ attempts = [s \in Sessions |-> 0]
  /\ sendFailed = [s \in Sessions |-> FALSE]
  /\ twin = [m |-> MtlsInit, s |-> StandaloneInit]

\* ------------------------------------------------- /toggle-health handler
\* net/http runs the handler in a goroutine of its own for every request
ToggleRequest(h) ==
  /\ hpc[h] = "idle"
  /\ started < MaxToggles
  /\ started' = started + 1
  /\ hpc' = [hpc EXCEPT ![h] = "lock"]
  /\ UNCHANGED <<variant, twin, isHealthy, mu, statusMap, tmp, statusString, body,
                 resps, nset, queryVars, sessVars>>

\* a mutex that excludes nobody
MutexFreeAlways == TRUE

\* sync.Mutex: Lock blocks while another goroutine holds the mutex
MutexFree == mu = 0

\* mu.Lock(); defer mu.Unlock()
Lock(h) ==
  /\ hpc[h] = "lock"
  /\ MutexFree
  /\ mu' = h
  /\ hpc' = [hpc EXCEPT ![h] = "load"]
  /\ UNCHANGED <<variant, twin, isHealthy, statusMap, tmp, statusString, body, started,
                 resps, nset, queryVars, sessVars>>

\* isHealthy = !isHealthy, the read of the right-hand side
Load(h) ==
  /\ hpc[h] = "load"
  /\ tmp' = [tmp EXCEPT ![h] = isHealthy]
  /\ hpc' = [hpc EXCEPT ![h] = "store"]
  /\ UNCHANGED <<variant, twin, isHealthy, mu, statusMap, statusString, body, started,
                 resps, nset, queryVars, sessVars>>

\* isHealthy = !isHealthy, the write
Store(h) ==
  /\ hpc[h] = "store"
  /\ isHealthy' = ~tmp[h]
  /\ hpc' = [hpc EXCEPT ![h] = "publish"]
  /\ UNCHANGED <<variant, twin, mu, statusMap, tmp, statusString, body, started,
                 resps, nset, queryVars, sessVars>>

\* the two statuses exchanged
StatusForInverted(healthy) == IF healthy THEN NOT_SERVING ELSE SERVING

\* the status the handler publishes for a value of isHealthy
StatusFor(healthy) == IF healthy THEN SERVING ELSE NOT_SERVING

\* the two strings exchanged
StringForSwapped(healthy) == IF healthy THEN UNHEALTHY ELSE HEALTHY

\* the statusString the handler picks for a value of isHealthy
StringFor(healthy) == IF healthy THEN HEALTHY ELSE UNHEALTHY

\* a handler that also cancels the running calls when it publishes
PublishStopsStreams(h) ==
  /\ hpc[h] = "publish"
  /\ statusMap' = StatusFor(isHealthy)
  /\ statusString' = [statusString EXCEPT ![h] = StringFor(isHealthy)]
  /\ nset' = nset + 1
  /\ hpc' = [hpc EXCEPT ![h] = "respond"]
  /\ ctxDone' = [s \in Sessions |-> ctxDone[s] \/ spc[s] \in {"select", "send"}]
  /\ UNCHANGED <<variant, twin, isHealthy, mu, tmp, body, started, resps, queryVars,
                 now, spc, tkRunning, tkWhen, tkC, tloc, sent, result, branch,
                 fired, firedAtCancel, dropped, received, attempts, sendFailed>>

\* if isHealthy { SetServingStatus("", SERVING); statusString = "HEALTHY" }
\* else { SetServingStatus("", NOT_SERVING); statusString = "UNHEALTHY" }
Publish(h) ==
  /\ hpc[h] = "publish"
  /\ statusMap' = StatusFor(isHealthy)
  /\ statusString' = [statusString EXCEPT ![h] = StringFor(isHealthy)]
  /\ nset' = nset + 1
  /\ hpc' = [hpc EXCEPT ![h] = "respond"]
  /\ UNCHANGED <<variant, twin, isHealthy, mu, tmp, body, started, resps, queryVars,
                 sessVars>>

\* log.Printf(...); fmt.Fprintf(w, "Health status is now %s\n", statusString)
Respond(h) ==
  /\ hpc[h] = "respond"
  /\ body' = [body EXCEPT ![h] = Fprintf(statusString[h])]
  /\ hpc' = [hpc EXCEPT ![h] = "unlock"]
  /\ UNCHANGED <<variant, twin, isHealthy, mu, statusMap, tmp, statusString, started,
                 resps, nset, queryVars, sessVars>>

\* the handler returns without the deferred mu.Unlock()
UnlockKeepsLock(h) ==
  /\ hpc[h] = "unlock"
  /\ resps' = Append(resps, body[h])
  /\ hpc' = [hpc EXCEPT ![h] = "idle"]
  /\ UNCHANGED <<variant, twin, isHealthy, mu, statusMap, tmp, statusString, body,
                 started, nset, queryVars, sessVars>>

\* the handler returns: the deferred mu.Unlock() runs, the response is complete
Unlock(h) ==
  /\ hpc[h] = "unlock"
  /\ mu' = IF mu = h THEN 0 ELSE mu
  /\ resps' = Append(resps, body[h])
  /\ hpc' = [hpc EXCEPT ![h] = "idle"]
  /\ UNCHANGED <<variant, twin, isHealthy, statusMap, tmp, statusString, body, started,
                 nset, queryVars, sessVars>>

\* ------------------------------------------------------------ health query
\* a Check("") request arrives at the health server
QueryStart ==
  /\ qpc = "idle"
  /\ qpc' = "check"
  /\ qstart' = Len(resps)
  /\ UNCHANGED <<variant, twin, healthVars, qres, qread, sessVars>>

\* a Check that answers from a status cached at start-up
CheckStatusCached == SERVING

\* what Check("") reads: the status of service "" in the health server
CheckStatus == statusMap

\* health.Server.Check: reads the status map under the health server's own lock
QueryCheck ==
  /\ qpc = "check"
  /\ qres' = CheckStatus
  /\ qread' = nset
  /\ qpc' = "ret"
  /\ UNCHANGED <<variant, twin, healthVars, qstart, sessVars>>

\* the reply is delivered
QueryReturn ==
  /\ qpc = "ret"
  /\ qpc' = "idle"
  /\ UNCHANGED <<variant, twin, healthVars, qres, qstart, qread, sessVars>>

\* the steps of the toggle handlers in H
ToggleNext(H) ==
  \E h \in H :
    \/ ToggleRequest(h)
    \/ Lock(h)
    \/ Load(h)
    \/ Store(h)
    \/ Publish(h)
    \/ Respond(h)
    \/ Unlock(h)

\* the steps of a health query
QueryNext ==
  \/ QueryStart
  \/ QueryCheck
  \/ QueryReturn

\* ------------------------------------------------------------- the clock
\* time passes
Advance(limit) ==
  /\ now < limit
  /\ now' = now + 1
  /\ UNCHANGED <<variant, twin, healthVars, queryVars, branch, spc, tkRunning, tkWhen, tkC,
                 ctxDone, tloc, sent, result, fired, firedAtCancel, dropped,
                 received, attempts, sendFailed>>

\* the runtime's ticker: when due it sends the time on ticker.C without
\* blocking (a tick is dropped when the channel still holds one) and schedules
\* the next firing a whole number of periods later, after the current time.
\* The time sent lies between the scheduled and the actual firing time.
TickerFire(s) ==
  /\ tkRunning[s] > 0
  /\ now >= tkWhen[s]
  /\ \E tv \in tkWhen[s]..now :
       tkC' = [tkC EXCEPT ![s] = IF tkC[s] = <<>> THEN <<tv>> ELSE tkC[s]]
  /\ dropped' = [dropped EXCEPT ![s] = IF tkC[s] = <<>> THEN @ ELSE @ + 1]
  /\ fired' = [fired EXCEPT ![s] = @ + 1]
  /\ tkWhen' = [tkWhen EXCEPT ![s] =
                  @ + Period(variant) * (1 + ((now - @) \div Period(variant)))]
  /\ UNCHANGED <<variant, twin, healthVars, queryVars, branch, now, spc, tkRunning, ctxDone,
                 tloc, sent, result, firedAtCancel, received, attempts,
                 sendFailed>>

\* the transport cancels the context of a running call (disconnect, deadline,
\* cancel)
Cancel(s) ==
  /\ spc[s] \in {"select", "send"}
  /\ ~ctxDone[s]
  /\ ctxDone' = [ctxDone EXCEPT ![s] = TRUE]
  /\ firedAtCancel' = [firedAtCancel EXCEPT ![s] = fired[s]]
  /\ UNCHANGED <<variant, twin, healthVars, queryVars, branch, now, spc, tkRunning, tkWhen,
                 tkC, tloc, sent, result, fired, dropped, received, attempts,
                 sendFailed>>

\* ------------------------------------------------------ server.StreamTime
\* ticker := time.NewTicker(period); defer ticker.Stop()
StreamStart(s) ==
  /\ spc[s] = "idle"
  /\ now <= MaxDrift
  /\ tkRunning' = [tkRunning EXCEPT ![s] = @ + 1]
  /\ tkWhen' = [tkWhen EXCEPT ![s] = now + Period(variant)]
  /\ spc' = [spc EXCEPT ![s] = "select"]
  /\ UNCHANGED <<variant, twin, healthVars, queryVars, branch, now, tkC, ctxDone, tloc, sent,
                 result, fired, firedAtCancel, dropped, received, attempts,
                 sendFailed>>

\* a context shared by all calls: cancelled as soon as one of them is
DoneShared(s) == \E x \in Sessions : ctxDone[x]

\* <-stream.Context().Done() can proceed: the call's own context is cancelled
Done(s) == ctxDone[s]

\* the cancellation case returns the context's error instead of nil
SelectDoneError(s) ==
  /\ spc[s] = "select"
  /\ Done(s)
  /\ result' = [result EXCEPT ![s] = "Canceled"]
  /\ branch' = [branch EXCEPT ![s] = "done"]
  /\ spc' = [spc EXCEPT ![s] = "ret"]
  /\ UNCHANGED <<variant, twin, healthVars, queryVars, now, tkRunning, tkWhen, tkC,
                 ctxDone, tloc, sent, fired, firedAtCancel, dropped, received,
                 attempts, sendFailed>>

\* the cancellation case notes the nil result and breaks out of the select
\* only, so that the loop goes on
SelectDoneBreak(s) ==
  /\ spc[s] = "select"
  /\ Done(s)
  /\ result' = [result EXCEPT ![s] = "OK"]
  /\ branch' = [branch EXCEPT ![s] = "done"]
  /\ UNCHANGED <<variant, twin, healthVars, queryVars, now, spc, tkRunning, tkWhen, tkC,
                 ctxDone, tloc, sent, fired, firedAtCancel, dropped, received,
                 attempts, sendFailed>>

\* case <-stream.Context().Done(): log.Println(...); return nil
SelectDone(s) ==
  /\ spc[s] = "select"
  /\ Done(s)
  /\ result' = [result EXCEPT ![s] = "OK"]
  /\ branch' = [branch EXCEPT ![s] = "done"]
  /\ spc' = [spc EXCEPT ![s] = "ret"]
  /\ UNCHANGED <<variant, twin, healthVars, queryVars, now, tkRunning, tkWhen, tkC,
                 ctxDone, tloc, sent, fired, firedAtCancel, dropped, received,
                 attempts, sendFailed>>

\* the tick case receives into a shadowed variable: t keeps its old value
SelectTickKeepsOld(s) ==
  /\ spc[s] = "select"
  /\ tkC[s] # <<>>
  /\ tkC' = [tkC EXCEPT ![s] = <<>>]
  /\ received' = [received EXCEPT ![s] = @ + 1]
  /\ branch' = [branch EXCEPT ![s] = "tick"]
  /\ spc' = [spc EXCEPT ![s] = "send"]
  /\ UNCHANGED <<variant, twin, healthVars, queryVars, now, tkRunning, tkWhen, ctxDone,
                 tloc, sent, result, fired, firedAtCancel, dropped, attempts,
                 sendFailed>>

\* case t := <-ticker.C: (select picks any case that can proceed)
SelectTick(s) ==
  /\ spc[s] = "select"
  /\ tkC[s] # <<>>
  /\ tloc' = [tloc EXCEPT ![s] = Head(tkC[s])]
  /\ tkC' = [tkC EXCEPT ![s] = <<>>]
  /\ received' = [received EXCEPT ![s] = @ + 1]
  /\ branch' = [branch EXCEPT ![s] = "tick"]
  /\ spc' = [spc EXCEPT ![s] = "send"]
  /\ UNCHANGED <<variant, twin, healthVars, queryVars, now, tkRunning, tkWhen, ctxDone,
                 sent, result, fired, firedAtCancel, dropped, attempts,
                 sendFailed>>

\* a failed Send is logged and the loop goes on
SendContinues(s) ==
  /\ spc[s] = "send"
  /\ attempts' = [attempts EXCEPT ![s] = @ + 1]
  /\ spc' = [spc EXCEPT ![s] = "select"]
  /\ \E ok \in BOOLEAN :
       IF ok
       THEN /\ sent' = [sent EXCEPT ![s] = Append(@, Format(tloc[s]))]
            /\ UNCHANGED sendFailed
       ELSE /\ sendFailed' = [sendFailed EXCEPT ![s] = TRUE]
            /\ UNCHANGED sent
  /\ UNCHANGED <<variant, twin, healthVars, queryVars, branch, now, tkRunning, tkWhen,
                 tkC, ctxDone, tloc, fired, firedAtCancel, dropped, received,
                 result>>

\* the function returns nil after the first successful Send
SendReturnsAfterFirst(s) ==
  /\ spc[s] = "send"
  /\ attempts' = [attempts EXCEPT ![s] = @ + 1]
  /\ spc' = [spc EXCEPT ![s] = "ret"]
  /\ \E ok \in BOOLEAN :
       IF ok
       THEN /\ sent' = [sent EXCEPT ![s] = Append(@, Format(tloc[s]))]
            /\ result' = [result EXCEPT ![s] = "OK"]
            /\ UNCHANGED sendFailed
       ELSE /\ sendFailed' = [sendFailed EXCEPT ![s] = TRUE]
            /\ result' = [result EXCEPT ![s] = "Internal"]
            /\ UNCHANGED sent
  /\ UNCHANGED <<variant, twin, healthVars, queryVars, branch, now, tkRunning, tkWhen,
                 tkC, ctxDone, tloc, fired, firedAtCancel, dropped, received>>

\* a failed Send is tried again with the same tick
SendRetries(s) ==
  /\ spc[s] = "send"
  /\ attempts' = [attempts EXCEPT ![s] = @ + 1]
  /\ \E ok \in BOOLEAN :
       IF ok
       THEN /\ sent' = [sent EXCEPT ![s] = Append(@, Format(tloc[s]))]
            /\ spc' = [spc EXCEPT ![s] = "select"]
            /\ UNCHANGED sendFailed
       ELSE /\ sendFailed' = [sendFailed EXCEPT ![s] = TRUE]
            /\ UNCHANGED <<sent, spc>>
  /\ UNCHANGED <<variant, twin, healthVars, queryVars, branch, now, tkRunning, tkWhen,
                 tkC, ctxDone, tloc, fired, firedAtCancel, dropped, received,
                 result>>

\* a failed Send ends every call: the error is kept in a variable shared by
\* all sessions
SendFailsAll(s) ==
  /\ spc[s] = "send"
  /\ attempts' = [attempts EXCEPT ![s] = @ + 1]
  /\ \E ok \in BOOLEAN :
       IF ok
       THEN /\ sent' = [sent EXCEPT ![s] = Append(@, Format(tloc[s]))]
            /\ spc' = [spc EXCEPT ![s] = "select"]
            /\ UNCHANGED <<result, sendFailed>>
       ELSE /\ sendFailed' = [sendFailed EXCEPT ![s] = TRUE]
            /\ result' = [x \in Sessions |->
                            IF x = s \/ spc[x] \in {"select", "send"}
                            THEN "Internal" ELSE result[x]]
            /\ spc' = [x \in Sessions |->
                         IF x = s \/ spc[x] \in {"select", "send"}
                         THEN "ret" ELSE spc[x]]
            /\ UNCHANGED sent
  /\ UNCHANGED <<variant, twin, healthVars, queryVars, branch, now, tkRunning, tkWhen,
                 tkC, ctxDone, tloc, fired, firedAtCancel, dropped, received>>

\* err := stream.Send(&pb.TimeResponse{CurrentTime: t.Format(time.RFC3339)})
\* err == nil: log and loop;  err != nil: return status.Errorf(codes.Internal, ...)
Send(s) ==
  /\ spc[s] = "send"
  /\ attempts' = [attempts EXCEPT ![s] = @ + 1]
  /\ \E ok \in BOOLEAN :
       IF ok
       THEN /\ sent' = [sent EXCEPT ![s] = Append(@, Format(tloc[s]))]
            /\ spc' = [spc EXCEPT ![s] = "select"]
            /\ UNCHANGED <<result, sendFailed>>
       ELSE /\ sendFailed' = [sendFailed EXCEPT ![s] = TRUE]
            /\ result' = [result EXCEPT ![s] = "Internal"]
            /\ spc' = [spc EXCEPT ![s] = "ret"]
            /\ UNCHANGED sent
  /\ UNCHANGED <<variant, twin, healthVars, queryVars, branch, now, tkRunning, tkWhen, tkC,
                 ctxDone, tloc, fired, firedAtCancel, dropped, received>>

\* the function returns without a deferred ticker.Stop()
ReturnNoStop(s) ==
  /\ spc[s] = "ret"
  /\ spc' = [spc EXCEPT ![s] = "done"]
  /\ UNCHANGED <<variant, twin, healthVars, queryVars, branch, now, tkRunning, tkWhen,
                 tkC, ctxDone, tloc, sent, result, fired, firedAtCancel, dropped,
                 received, attempts, sendFailed>>

\* the function returns: the deferred ticker.Stop() runs first
Return(s) ==
  /\ spc[s] = "ret"
  /\ tkRunning' = [tkRunning EXCEPT ![s] = @ - 1]
  /\ spc' = [spc EXCEPT ![s] = "done"]
  /\ UNCHANGED <<variant, twin, healthVars, queryVars, branch, now, tkWhen, tkC, ctxDone, tloc,
                 sent, result, fired, firedAtCancel, dropped, received, attempts,
                 sendFailed>>

\* the steps of the clock and of the sessions in S, up to time limit
StreamNext(S, limit) ==
  \/ Advance(limit)
  \/ \E s \in S :
       \/ TickerFire(s)
       \/ Cancel(s)
       \/ StreamStart(s)
       \/ SelectDone(s)
       \/ SelectTick(s)
       \/ Send(s)
       \/ Return(s)

\* a toggle handler, health queries and one session side by side
Next == ToggleNext({1}) \/ QueryNext \/ StreamNext({"A"}, ShortTime)
Spec == Init /\ [][Next]_vars

\* the health register alone: concurrent toggle handlers and health queries
HealthNext == ToggleNext(Handlers) \/ QueryNext
SpecHealth == Init /\ [][HealthNext]_vars

\* one session, followed for a longer time
OneNext == StreamNext({"A"}, MaxTime)
SpecStream == Init /\ [][OneNext]_vars

\* the steps of call s that the Go scheduler runs once they can be taken:
\* stream.Send returns, the function returns; the select takes the
\* cancellation case sooner or later when it can be taken again and again
\* (select picks among the ready cases uniformly at random)
StreamFair(s) ==
  /\ SF_vars(SelectDone(s))
  /\ WF_vars(Send(s))
  /\ WF_vars(Return(s))

\* one session under fair scheduling
SpecStreamLive == Init /\ [][OneNext]_vars /\ StreamFair("A")

\* the steps of handler h inside the critical section
CriticalStep(h) == Load(h) \/ Store(h) \/ Publish(h) \/ Respond(h) \/ Unlock(h)

\* a handler inside the critical section goes on running; sync.Mutex hands
\* the lock to a goroutine that keeps waiting (starvation mode)
ToggleFair(h) ==
  /\ SF_vars(Lock(h))
  /\ WF_vars(CriticalStep(h))

\* the health register under fair scheduling
SpecHealthLive == Init /\ [][HealthNext]_vars /\ \A h \in Handlers : ToggleFair(h)

\* two concurrent sessions
PairNext == StreamNext(Sessions, ShortTime)
SpecPair == Init /\ [][PairNext]_vars

\* ------------------------------------------- the two programs side by side
\* Each program is one StreamTime call and one /toggle-health handler, driven
\* by events: the steps of the call and of the handler, the firings of the
\* ticker (on schedule), the cancellation and the result of each Send.
Events ==
  {"Start", "Fire", "Cancel", "SelectDone", "SelectTick", "SendOk", "SendErr",
   "Return", "Request", "Lock", "Load", "Store", "Publish", "Respond", "Unlock"}

\* firings followed: those of the slower ticker up to MaxTime
TwinTicks == MaxTime \div (MtlsPeriodSeconds * UnitsPerSecond)

\* the time of the k-th firing of a ticker with the given period
TickTime(k, periodSeconds) == k * periodSeconds * UnitsPerSecond

\* main.go:34-52, 102-116 (mTLS): when each step can be taken
MtlsGuard(e, st) ==
  CASE e = "Start" -> st.pc = "idle"
    [] e = "Fire" -> st.timers > 0 /\ st.n < TwinTicks
    [] e = "Cancel" -> st.pc \in {"select", "send"} /\ ~st.cancelled
    [] e = "SelectDone" -> st.pc = "select" /\ st.cancelled
    [] e = "SelectTick" -> st.pc = "select" /\ st.C # <<>>
    [] e = "SendOk" -> st.pc = "send"
    [] e = "SendErr" -> st.pc = "send"
    [] e = "Return" -> st.pc = "ret"
    [] e = "Request" -> st.hpc = "idle" /\ st.started < MaxToggles
    [] e = "Lock" -> st.hpc = "lock" /\ ~st.locked
    [] e = "Load" -> st.hpc = "load"
    [] e = "Store" -> st.hpc = "store"
    [] e = "Publish" -> st.hpc = "publish"
    [] e = "Respond" -> st.hpc = "respond"
    [] e = "Unlock" -> st.hpc = "unlock"

\* main.go:45-48 (mTLS): Send failed, return status.Errorf(codes.Internal, ...)
MtlsSendError(st) == [st EXCEPT !.pc = "ret", !.result = "Internal"]

\* main.go:34-52, 102-116 (mTLS): the steps
MtlsStep(e, st) ==
  CASE e = "Start" -> [st EXCEPT !.pc = "select", !.timers = @ + 1]
    [] e = "Fire" ->
         [st EXCEPT !.n = @ + 1,
                    !.C = IF @ = <<>>
                          THEN <<TickTime(st.n + 1, MtlsPeriodSeconds)>> ELSE @]
    [] e = "Cancel" -> [st EXCEPT !.cancelled = TRUE]
    [] e = "SelectDone" -> [st EXCEPT !.pc = "ret", !.result = "OK"]
    [] e = "SelectTick" -> [st EXCEPT !.pc = "send", !.t = Head(st.C), !.C = <<>>]
    [] e = "SendOk" ->
         [st EXCEPT !.pc = "select", !.sent = Append(@, Format(st.t))]
    [] e = "SendErr" -> MtlsSendError(st)
    [] e = "Return" -> [st EXCEPT !.pc = "done", !.timers = @ - 1]
    [] e = "Request" -> [st EXCEPT !.hpc = "lock", !.started = @ + 1]
    [] e = "Lock" -> [st EXCEPT !.hpc = "load", !.locked = TRUE]
    [] e = "Load" -> [st EXCEPT !.hpc = "store", !.tmp = st.isHealthy]
    [] e = "Store" -> [st EXCEPT !.hpc = "publish", !.isHealthy = ~st.tmp]
    [] e = "Publish" ->
         [st EXCEPT !.hpc = "respond",
                    !.status = IF st.isHealthy THEN SERVING ELSE NOT_SERVING,
                    !.str = IF st.isHealthy THEN HEALTHY ELSE UNHEALTHY]
    [] e = "Respond" -> [st EXCEPT !.hpc = "unlock", !.body = Fprintf(st.str)]
    [] e = "Unlock" ->
         [st EXCEPT !.hpc = "idle", !.locked = FALSE,
                    !.resps = Append(@, st.body)]

\* main.go:157-175, 220-237 (standalone): when each step can be taken
StandaloneGuard(e, st) ==
  CASE e = "Start" -> st.pc = "idle"
    [] e = "Fire" -> st.timers > 0 /\ st.n < TwinTicks
    [] e = "Cancel" -> st.pc \in {"select", "send"} /\ ~st.cancelled
    [] e = "SelectDone" -> st.pc = "select" /\ st.cancelled
    [] e = "SelectTick" -> st.pc = "select" /\ st.C # <<>>
    [] e = "SendOk" -> st.pc = "send"
    [] e = "SendErr" -> st.pc = "send"
    [] e = "Return" -> st.pc = "ret"
    [] e = "Request" -> st.hpc = "idle" /\ st.started < MaxToggles
    [] e = "Lock" -> st.hpc = "lock" /\ ~st.locked
    [] e = "Load" -> st.hpc = "load"
    [] e = "Store" -> st.hpc = "store"
    [] e = "Publish" -> st.hpc = "publish"
    [] e = "Respond" -> st.hpc = "respond"
    [] e = "Unlock" -> st.hpc = "unlock"

\* a failed Send that is logged only: the loop goes on
StandaloneSendErrorLogged(st) == [st EXCEPT !.pc = "select"]

\* main.go:168-171 (standalone): Send failed, return status.Errorf(...)
StandaloneSendError(st) == [st EXCEPT !.pc = "ret", !.result = "Internal"]

\* main.go:157-175, 220-237 (standalone): the steps
StandaloneStep(e, st) ==
  CASE e = "Start" -> [st EXCEPT !.pc = "select", !.timers = @ + 1]
    [] e = "Fire" ->
         [st EXCEPT !.n = @ + 1,
                    !.C = IF @ = <<>>
                          THEN <<TickTime(st.n + 1, StandalonePeriodSeconds)>>
                          ELSE @]
    [] e = "Cancel" -> [st EXCEPT !.cancelled = TRUE]
    [] e = "SelectDone" -> [st EXCEPT !.pc = "ret", !.result = "OK"]
    [] e = "SelectTick" -> [st EXCEPT !.pc = "send", !.t = Head(st.C), !.C = <<>>]
    [] e = "SendOk" ->
         [st EXCEPT !.pc = "select", !.sent = Append(@, Format(st.t))]
    [] e = "SendErr" -> StandaloneSendError(st)
    [] e = "Return" -> [st EXCEPT !.pc = "done", !.timers = @ - 1]
    [] e = "Request" -> [st EXCEPT !.hpc = "lock", !.started = @ + 1]
    [] e = "Lock" -> [st EXCEPT !.hpc = "load", !.locked = TRUE]
    [] e = "Load" -> [st EXCEPT !.hpc = "store", !.tmp = st.isHealthy]
    [] e = "Store" -> [st EXCEPT !.hpc = "publish", !.isHealthy = ~st.tmp]
    [] e = "Publish" ->
         [st EXCEPT !.hpc = "respond",
                    !.status = IF st.isHealthy THEN SERVING ELSE NOT_SERVING,
                    !.str = IF st.isHealthy THEN HEALTHY ELSE UNHEALTHY]
    [] e = "Respond" -> [st EXCEPT !.hpc = "unlock", !.body = Fprintf(st.str)]
    [] e = "Unlock" ->
         [st EXCEPT !.hpc = "idle", !.locked = FALSE,
                    !.resps = Append(@, st.body)]

\* both programs take the step of event e
TwinStep(e) ==
  /\ MtlsGuard(e, twin.m)
  /\ StandaloneGuard(e, twin.s)
  /\ twin' = [m |-> MtlsStep(e, twin.m), s |-> StandaloneStep(e, twin.s)]
  /\ UNCHANGED <<variant, healthVars, queryVars, sessVars>>

TwinNext ==
  \/ TwinStep("Start")
  \/ TwinStep("Fire")
  \/ TwinStep("Cancel")
  \/ TwinStep("SelectDone")
  \/ TwinStep("SelectTick")
  \/ TwinStep("SendOk")
  \/ TwinStep("SendErr")
  \/ TwinStep("Return")
  \/ TwinStep("Request")
  \/ TwinStep("Lock")
  \/ TwinStep("Load")
  \/ TwinStep("Store")
  \/ TwinStep("Publish")
  \/ TwinStep("Respond")
  \/ TwinStep("Unlock")

\* the two programs side by side on the same sequence of events
SpecTwin == Init /\ [][TwinNext]_vars

\* ===================================================================== claims

\* the status after n toggles from the initial SERVING
AfterToggles(n) == IF n % 2 = 0 THEN SERVING ELSE NOT_SERVING

\* toggle handlers past their SetServingStatus call that have not returned yet
Published == {h \in Handlers : hpc[h] \in {"respond", "unlock"}}

\* C1: after N completed toggle requests, in any interleaving, the health
\* status is SERVING if N is even and NOT_SERVING if N is odd, and no toggle
\* is lost or applied twice: the published status always has the parity of
\* the number of toggles applied, which is the number of completed requests
\* plus the one request, if any, that has published and not yet returned.
C1_ToggleParity ==
  /\ statusMap = AfterToggles(nset)
  /\ nset = Len(resps) + Cardinality(Published)
  /\ Cardinality(Published) <= 1
  /\ mu = 0 => /\ nset = Len(resps)
               /\ statusMap = AfterToggles(Len(resps))
               /\ isHealthy = (Len(resps) % 2 = 0)

\* C1 witness: three toggle requests have completed, no handler holds the
\* lock, and the status is NOT_SERVING
C1_Witness ==
  /\ Len(resps) = 3
  /\ mu = 0
  /\ statusMap = NOT_SERVING

\* C2: a health query that starts after a Toggle / SetServingStatus call has
\* completed returns the status established by the most recently completed
\* SetServingStatus call at the time it reads, which is never older than the
\* last toggle completed before the query started.
C2_NoStaleRead ==
  qpc = "ret" =>
    /\ qstart <= qread
    /\ qres = AfterToggles(qread)
    /\ qread = qstart => qres = AfterToggles(qstart)

\* C2 witness: a query started after the first toggle had completed returns
\* NOT_SERVING, with no other toggle published meanwhile
C2_Witness ==
  /\ qpc = "ret"
  /\ qstart = 1
  /\ qread = 1
  /\ qres = NOT_SERVING

\* the status a confirmation body names
Names(b) ==
  IF Contains(b, UNHEALTHY) THEN NOT_SERVING
  ELSE IF Contains(b, HEALTHY) THEN SERVING
  ELSE "none"

\* C3: every toggle request returns a body naming the status resulting from
\* that toggle ("UNHEALTHY" exactly when NOT_SERVING, "HEALTHY" and not
\* "UNHEALTHY" exactly when SERVING), a health query right after the handler
\* returns, with no other toggle in between, reads that status, and from
\* SERVING the i-th toggle yields NOT_SERVING for odd i and SERVING for even i.
C3_BodyNamesStatus ==
  /\ \A h \in Handlers :
       hpc[h] = "unlock" =>
         /\ Names(body[h]) = statusMap
         /\ Contains(body[h], UNHEALTHY) <=> statusMap = NOT_SERVING
         /\ (Contains(body[h], HEALTHY) /\ ~Contains(body[h], UNHEALTHY))
              <=> statusMap = SERVING
  /\ \A i \in 1..Len(resps) : Names(resps[i]) = AfterToggles(i)
  /\ (Len(resps) > 0 /\ nset = Len(resps)) =>
       CheckStatus = Names(resps[Len(resps)])

\* C3 witness: two toggles have completed, the first answered UNHEALTHY, the
\* second HEALTHY, and the status read by a query is SERVING
C3_Witness ==
  /\ Len(resps) = 2
  /\ nset = 2
  /\ Contains(resps[1], UNHEALTHY)
  /\ Contains(resps[2], HEALTHY)
  /\ ~Contains(resps[2], UNHEALTHY)
  /\ CheckStatus = SERVING

\* ------------------------------------------------------------ sessions
\* StreamTime has executed a return statement
Terminated(s) == result[s] # "none"

\* the ticks waiting in the ticker's channel
Pending(s) == Len(tkC[s])

\* the CurrentTime values written never decrease
Ordered(q) == \A i \in 1..(Len(q) - 1) : q[i] <= q[i + 1]

\* C4 as stated: whenever the cancellation fires while the session is
\* RUNNING, the session returns without error, whatever the interleaving of
\* a pending tick, a send and the cancellation.
C4_NoErrorOnceCancelled ==
  \A s \in Sessions :
    (ctxDone[s] /\ Terminated(s)) => result[s] = "OK"

\* C4 amended: a session cancelled while RUNNING releases its timer when it
\* returns, returns without error when its select takes the cancellation case,
\* and returns the internal error only when it took the tick case and that
\* Send failed.
C4_NoErrorWhenCancelObserved ==
  \A s \in Sessions :
    (ctxDone[s] /\ Terminated(s)) =>
      /\ branch[s] = "done" => result[s] = "OK"
      /\ result[s] \in {"OK", "Internal"}
      /\ result[s] = "Internal" => (branch[s] = "tick" /\ sendFailed[s])
      /\ spc[s] = "done" => tkRunning[s] = 0

\* C4 witness: a session that had received a tick was cancelled, took the
\* cancellation case and returned nil with its timer stopped
C4_Witness ==
  \E s \in Sessions :
    /\ ctxDone[s]
    /\ spc[s] = "done"
    /\ branch[s] = "done"
    /\ result[s] = "OK"
    /\ received[s] >= 1
    /\ tkRunning[s] = 0

\* C5: when a Send fails the session terminates at once with the internal
\* error: the send is not retried, no further tick is consumed, no further
\* write is attempted, the timer is stopped; if the k-th write is the first
\* to fail, exactly k-1 TimeEvents were emitted.
C5_SendFailureTerminates ==
  \A s \in Sessions :
    sendFailed[s] =>
      /\ result[s] = "Internal"
      /\ spc[s] \in {"ret", "done"}
      /\ attempts[s] = Len(sent[s]) + 1
      /\ received[s] = attempts[s]
      /\ spc[s] = "done" => tkRunning[s] = 0

\* C5 witness: the 2nd write failed after one TimeEvent was emitted; the
\* session has returned, its timer is stopped and a later tick is left
\* unconsumed in the channel
C5_Witness ==
  \E s \in Sessions :
    /\ sendFailed[s]
    /\ spc[s] = "done"
    /\ attempts[s] = 2
    /\ Len(sent[s]) = 1
    /\ tkC[s] # <<>>
    /\ tkRunning[s] = 0

\* C6 as stated: if the clock fires exactly k times before the cancellation
\* and no write fails, the session emits exactly k TimeEvents, in increasing
\* timestamp order, and terminates without error, in every interleaving.
C6_ExactlyKEvents ==
  \A s \in Sessions :
    (spc[s] = "done" /\ ctxDone[s] /\ ~sendFailed[s]) =>
      /\ Len(sent[s]) = firedAtCancel[s]
      /\ Ordered(sent[s])
      /\ result[s] = "OK"

\* C6 amended: if no write fails the session emits one TimeEvent for each
\* tick it takes from the ticker's channel, never more than the clock's
\* firings: a firing is lost when the channel still holds the previous tick
\* or when it is still in the channel as the cancellation case is taken, and
\* a firing after the cancellation can still be emitted. Timestamps never
\* decrease, the session returns only after its cancellation and without
\* error, and it has emitted exactly k when no firing was dropped, none is
\* left in the channel and none came after the cancellation.
C6_OneEventPerReceivedTick ==
  \A s \in Sessions :
    ~sendFailed[s] =>
      /\ received[s] + dropped[s] + Pending(s) = fired[s]
      /\ Len(sent[s]) = IF spc[s] = "send" THEN received[s] - 1 ELSE received[s]
      /\ Len(sent[s]) <= fired[s]
      /\ Ordered(sent[s])
      /\ Terminated(s) => (ctxDone[s] /\ result[s] = "OK")
      /\ (spc[s] = "done" /\ dropped[s] = 0 /\ Pending(s) = 0
            /\ fired[s] = firedAtCancel[s]) =>
           Len(sent[s]) = firedAtCancel[s]

\* C6 witness: the clock fired three times before the cancellation, no
\* write failed, and the session returned nil having emitted three
\* TimeEvents
C6_Witness ==
  \E s \in Sessions :
    /\ spc[s] = "done"
    /\ ~sendFailed[s]
    /\ firedAtCancel[s] = 3
    /\ fired[s] = 3
    /\ Len(sent[s]) = 3
    /\ result[s] = "OK"

\* C7: a session never writes to the transport after it has transitioned to
\* TERMINATED: once StreamTime has executed a return (cancellation or send
\* failure) the session makes no further Send and emits nothing more.
C7_NoWriteAfterTerminated ==
  [][\A s \in Sessions :
       Terminated(s) =>
         /\ attempts'[s] = attempts[s]
         /\ sent'[s] = sent[s]
         /\ received'[s] = received[s]
         /\ result'[s] = result[s]]_vars

\* C7 witness: a session returned on cancellation after emitting, while a
\* tick it will never send is left in the ticker's channel
C7_Witness ==
  \E s \in Sessions :
    /\ spc[s] = "done"
    /\ result[s] = "OK"
    /\ Len(sent[s]) >= 1
    /\ tkC[s] # <<>>

\* C8: each session owns at most one ticking timer, exactly one while its
\* handler runs, and the timer is stopped before the handler returns on
\* every exit path: no session is TERMINATED and returned with its timer
\* still running.
C8_TimerStoppedOnReturn ==
  \A s \in Sessions :
    /\ tkRunning[s] \in {0, 1}
    /\ spc[s] \in {"select", "send", "ret"} => tkRunning[s] = 1
    /\ spc[s] \in {"idle", "done"} => tkRunning[s] = 0

\* C8 witness: one session has returned on cancellation and the other on a
\* send failure, and neither timer runs
C8_Witness ==
  /\ spc["A"] = "done"
  /\ result["A"] = "OK"
  /\ spc["B"] = "done"
  /\ result["B"] = "Internal"
  /\ tkRunning["A"] = 0
  /\ tkRunning["B"] = 0

\* what belongs to session s
SessionState(s) ==
  <<spc[s], tkRunning[s], tkWhen[s], tkC[s], ctxDone[s], tloc[s], sent[s],
    result[s], branch[s], received[s], attempts[s], sendFailed[s]>>

\* C9: with concurrent sessions each session reacts only to its own
\* cancellation signal: the cancellation of session a changes nothing of
\* another session b (it does not terminate b, stop b's timer or change
\* what b has emitted), and a session returns nil only when its own context
\* is cancelled.
C9_OwnCancellationOnly ==
  [][/\ \A a \in Sessions :
          (ctxDone'[a] /\ ~ctxDone[a]) =>
            \A b \in Sessions \ {a} : SessionState(b)' = SessionState(b)
     /\ \A b \in Sessions :
          (branch'[b] = "done" /\ branch[b] # "done") => ctxDone[b]]_vars

\* C9 witness: A was cancelled and has returned without having emitted; B
\* is still running on its own timer and has emitted a TimeEvent
C9_Witness ==
  /\ ctxDone["A"]
  /\ spc["A"] = "done"
  /\ Len(sent["A"]) = 0
  /\ ~ctxDone["B"]
  /\ spc["B"] = "select"
  /\ tkRunning["B"] = 1
  /\ Len(sent["B"]) >= 1

\* C10: toggling health while a session is active leaves the session
\* unchanged (not terminated, timer not stopped, emitted events unchanged),
\* the session is never blocked by the health lock (its pending step can be
\* taken while a handler holds mu), and no session step changes the health
\* status.
C10_HealthAndStreamIndependent ==
  /\ [][/\ healthVars' # healthVars => sessVars' = sessVars
        /\ sessVars' # sessVars => healthVars' = healthVars]_vars
  /\ [](\A s \in {"A"} :
          mu # 0 =>
            /\ spc[s] = "send" => ENABLED Send(s)
            /\ (spc[s] = "select" /\ tkC[s] # <<>>) => ENABLED SelectTick(s)
            /\ (spc[s] = "select" /\ ctxDone[s]) => ENABLED SelectDone(s)
            /\ spc[s] = "ret" => ENABLED Return(s))

\* C10 witness: a toggle has completed and the status is NOT_SERVING while
\* the session is still running on its timer and has emitted a TimeEvent
C10_Witness ==
  /\ Len(resps) >= 1
  /\ statusMap = NOT_SERVING
  /\ spc["A"] = "select"
  /\ result["A"] = "none"
  /\ tkRunning["A"] = 1
  /\ Len(sent["A"]) >= 1

\* C11: a session leaves RUNNING only through one of two triggers and its
\* result identifies the trigger: StreamTime returns nil only if the
\* cancellation case was taken and the internal error only if a Send failed;
\* while neither has occurred the session stays RUNNING across any number of
\* ticks and does not return.
C11_TwoTriggers ==
  \A s \in Sessions :
    /\ result[s] \in {"none", "OK", "Internal"}
    /\ result[s] = "OK" => (branch[s] = "done" /\ ctxDone[s] /\ ~sendFailed[s])
    /\ result[s] = "Internal" => (branch[s] = "tick" /\ sendFailed[s])
    /\ spc[s] \in {"ret", "done"} <=> Terminated(s)
    /\ (~sendFailed[s] /\ branch[s] # "done") =>
         (result[s] = "none" /\ spc[s] \in {"idle", "select", "send"})

\* C11 witness: neither trigger has occurred and the session is back at its
\* select, still RUNNING, after four ticks received and sent
C11_Witness ==
  \E s \in Sessions :
    /\ spc[s] = "select"
    /\ result[s] = "none"
    /\ ~ctxDone[s]
    /\ ~sendFailed[s]
    /\ received[s] >= 4
    /\ Len(sent[s]) >= 4

\* C13: while RUNNING the session makes exactly one write attempt per tick
\* received, before the next wait, and none without a tick: at the wait
\* point (and after it has left the loop) attempts = ticks received, and
\* between the receipt and the Send exactly one attempt is outstanding.
C13_OneWritePerTick ==
  \A s \in Sessions :
    /\ spc[s] \in {"idle", "select", "ret", "done"} => attempts[s] = received[s]
    /\ spc[s] = "send" => attempts[s] = received[s] - 1
    /\ Len(sent[s]) <= attempts[s]
    /\ Len(sent[s]) = IF sendFailed[s] THEN attempts[s] - 1 ELSE attempts[s]

\* C13 witness: the session is back at the wait point after three ticks
\* received and three writes, while a fourth firing was dropped and is
\* never written
C13_Witness ==
  \E s \in Sessions :
    /\ spc[s] = "select"
    /\ received[s] = 3
    /\ attempts[s] = 3
    /\ dropped[s] >= 1
    /\ fired[s] >= 4

\* C14: within one session TimeEvents are emitted in strictly increasing
\* tick order, without reordering or batching: every tick received is
\* strictly later than the tick received before it, and every write emits
\* one event, which carries the tick just received.
C14_TickOrder ==
  [][\A s \in Sessions :
       /\ received'[s] # received[s] =>
            /\ received'[s] = received[s] + 1
            /\ tloc'[s] = Head(tkC[s])
            /\ tkC'[s] = <<>>
            /\ received[s] >= 1 => tloc'[s] > tloc[s]
       /\ sent'[s] # sent[s] =>
            /\ sent'[s] = Append(sent[s], Format(tloc[s]))
            /\ attempts'[s] = received[s]
            /\ tloc'[s] = tloc[s]
       /\ Ordered(sent'[s])]_vars

\* C14 witness: three events were emitted, a firing between them was
\* dropped, and the timestamps written strictly increase
C14_Witness ==
  \E s \in Sessions :
    /\ Len(sent[s]) = 3
    /\ dropped[s] >= 1
    /\ sent[s][1] < sent[s][2]
    /\ sent[s][2] < sent[s][3]

\* C15: a send failure is confined to its call: the step in which a Send
\* fails gives that session the internal error, changes nothing of any
\* other session and leaves the health status unchanged, and a session has
\* the internal error only if a Send of its own failed.
C15_SendFailureConfined ==
  [][/\ \A a \in Sessions :
          (sendFailed'[a] /\ ~sendFailed[a]) =>
            /\ result'[a] = "Internal"
            /\ \A b \in Sessions \ {a} : SessionState(b)' = SessionState(b)
            /\ healthVars' = healthVars
     /\ \A b \in Sessions :
          result'[b] = "Internal" => sendFailed'[b]]_vars

\* C15 witness: a Send of A failed and A returned the internal error; B is
\* still running, without error, and has emitted
C15_Witness ==
  /\ sendFailed["A"]
  /\ spc["A"] = "done"
  /\ result["A"] = "Internal"
  /\ ~sendFailed["B"]
  /\ result["B"] = "none"
  /\ spc["B"] = "select"
  /\ Len(sent["B"]) >= 1

\* toggle handlers inside the critical section of mu
InCritical ==
  {h \in Handlers : hpc[h] \in {"load", "store", "publish", "respond", "unlock"}}

\* C16 as stated: all Health Register operations exclude each other under a
\* single lock, health queries included: no query reads the status while a
\* toggle handler holds the lock.
C16_QueriesExcludedByLock ==
  [][(qpc = "check" /\ qpc' = "ret") => mu = 0]_vars

\* C16 amended: at most one toggle handler is inside the critical section
\* of mu at a time and isHealthy is read and written only by the holder of
\* mu; the published status is written by the holder of mu and read by the
\* health queries through the health server, which guards it with a lock
\* of its own, not with mu: a query can read during a toggle's critical
\* section, and what it reads is the status before or after a toggle, never
\* anything else.
C16_ToggleExclusion ==
  /\ [](/\ Cardinality(InCritical) <= 1
        /\ mu = 0 <=> InCritical = {}
        /\ mu # 0 => InCritical = {mu}
        /\ qpc = "ret" =>
             /\ qstart <= qread
             /\ qread <= nset
             /\ qres = AfterToggles(qread))
  /\ [][/\ isHealthy' # isHealthy => (mu # 0 /\ hpc[mu] = "store")
        /\ statusMap' # statusMap => (mu # 0 /\ hpc[mu] = "publish")
        /\ \A h \in Handlers :
             tmp'[h] # tmp[h] => (mu = h /\ hpc[h] = "load")]_vars

\* C16 witness: a query has read the status published by a toggle whose
\* handler still holds mu
C16_Witness ==
  /\ qpc = "ret"
  /\ mu # 0
  /\ hpc[mu] \in {"respond", "unlock"}
  /\ qread = nset
  /\ nset = Len(resps) + 1
  /\ qres = statusMap

\* C17: whenever no toggle handler holds mu, isHealthy and the published
\* status agree (isHealthy iff SERVING); they disagree only inside a
\* toggle's critical section, between the flip of isHealthy and the
\* SetServingStatus call.
C17_FlagMatchesStatus ==
  /\ mu = 0 => (isHealthy <=> statusMap = SERVING)
  /\ ~(isHealthy <=> statusMap = SERVING) => (mu # 0 /\ hpc[mu] = "publish")
  /\ (mu # 0 /\ hpc[mu] = "publish") => ~(isHealthy <=> statusMap = SERVING)

\* C17 witness: inside the second toggle's critical section isHealthy is
\* true again while NOT_SERVING is still published
C17_Witness ==
  /\ mu # 0
  /\ hpc[mu] = "publish"
  /\ Len(resps) = 1
  /\ isHealthy
  /\ statusMap = NOT_SERVING

\* C12: once a session's cancellation signal has fired, the session
\* eventually reaches TERMINATED with its timer stopped, under fair
\* scheduling and with every Send returning, even if ticks keep arriving:
\* the cancellation case can be taken at every select, whether or not a
\* tick is ready.
C12_CancelledTerminates ==
  /\ [](\A s \in Sessions :
          (ctxDone[s] /\ spc[s] = "select") => ENABLED SelectDone(s))
  /\ \A s \in Sessions :
       ctxDone[s] ~> (spc[s] = "done" /\ Terminated(s) /\ tkRunning[s] = 0)

\* C12 witness: two more ticks arrived after the cancellation and the
\* session has nevertheless returned nil with its timer stopped
C12_Witness ==
  \E s \in Sessions :
    /\ ctxDone[s]
    /\ spc[s] = "done"
    /\ result[s] = "OK"
    /\ fired[s] >= firedAtCancel[s] + 2
    /\ tkRunning[s] = 0

\* C18: the health lock is released on every path of the toggle handler,
\* so the handlers never deadlock (the holder of mu can always take its
\* next step and a free lock can be taken by a waiting handler), and under
\* fair scheduling every toggle request that starts eventually completes
\* and has written its confirmation.
C18_ToggleCompletes ==
  /\ [](/\ mu # 0 => (mu \in InCritical /\ ENABLED CriticalStep(mu))
        /\ \A h \in Handlers : (hpc[h] = "lock" /\ mu = 0) => ENABLED Lock(h))
  /\ \A h \in Handlers :
       (hpc[h] = "lock") ~> (hpc[h] = "idle" /\ mu # h /\ body[h] # <<>>)

\* C18 witness: a request waits for the lock held by another handler after
\* a first request has completed
C18_Witness ==
  \E h \in Handlers :
    /\ hpc[h] = "lock"
    /\ mu # 0
    /\ mu # h
    /\ Len(resps) >= 1

\* times of the two programs that stand for the same firing
SameTick(tm, ts) == tm * StandalonePeriodSeconds = ts * MtlsPeriodSeconds

\* sequences of times that stand for the same firings
SameTicks(qm, qs) ==
  /\ Len(qm) = Len(qs)
  /\ \A i \in 1..Len(qm) : SameTick(qm[i], qs[i])

\* corresponding states: equal but for the times, which are those of the
\* same firings under the two periods
Corresponding(m, s) ==
  /\ [m EXCEPT !.C = <<>>, !.t = 0, !.sent = <<>>]
       = [s EXCEPT !.C = <<>>, !.t = 0, !.sent = <<>>]
  /\ SameTicks(m.C, s.C)
  /\ SameTick(m.t, s.t)
  /\ SameTicks(m.sent, s.sent)

====
